---- MODULE Spec2Model ----
(***************************************************************************)
(* Agentic RAG demo: a Streamlit front end (src/app.py) that posts a query *)
(* to a FastAPI backend (src/server.py), which runs a two-task CrewAI      *)
(* pipeline (Researcher, then Writer) against a local model backend.       *)
(*                                                                         *)
(* Time is abstracted: the expiry of the health memo (ttl=10), of the      *)
(* health GET (timeout=2) and of the predict POST (timeout=300) are events *)
(* that may happen at any moment the timer is armed, since the latency of  *)
(* the model backend is unbounded.                                         *)
(***************************************************************************)
EXTENDS Naturals, Sequences, FiniteSets, TLC

\* ---------------------------------------------------------------- bounds
MaxInFlight == 3    \* requests in flight between the clients and the backend at one time
MaxQueryLen == 3    \* longest query typed under SpecQuery

Ids == 1..MaxInFlight

\* ---------------------------------------------------------------- text
Whitespace == {" ", "\n"}
Alphabet   == Whitespace \cup {"a"}

RECURSIVE StringsUpTo(_)
StringsUpTo(n) ==
    IF n = 0 THEN {""}
    ELSE LET P == StringsUpTo(n - 1) IN P \cup {p \o c : p \in P, c \in Alphabet}

\* str.lstrip / str.rstrip / str.strip with no argument: drop whitespace ends
RECURSIVE lstrip(_)
lstrip(s) ==
    IF Len(s) > 0 /\ SubSeq(s, 1, 1) \in Whitespace
    THEN lstrip(SubSeq(s, 2, Len(s)))
    ELSE s

RECURSIVE rstrip(_)
rstrip(s) ==
    IF Len(s) > 0 /\ SubSeq(s, Len(s), Len(s)) \in Whitespace
    THEN rstrip(SubSeq(s, 1, Len(s) - 1))
    ELSE s

strip(s) == rstrip(lstrip(s))

\* Python truth value of a str
Truthy(s) == Len(s) > 0

\* dict.get(key, default)
Get(d, k, default) == IF k \in DOMAIN d THEN d[k] ELSE default

\* The texts the language model may produce (free text, possibly empty)
Texts == {"", "insights"}

\* The queries a user types: Spec keeps them short, SpecQuery takes them all
ShortQueries == {"", " ", "a"}
AllQueries   == StringsUpTo(MaxQueryLen)
\* The queries other clients post: the same non-blank query the page posts under Spec
OtherQueries == {"a"}

\* ---------------------------------------------------------------- backend: the crew
\* Task descriptions, as the pieces around the {query} placeholders; the numbered
\* instructions between the two placeholders are abridged to " [...] "
researcher_task ==
    [agent       |-> "Research Specialist",
     description |-> <<"Carefully analyze the user's question: ", "{query}",
                       " [...] User's question: ", "{query}">>]

writer_task ==
    [agent       |-> "Technical Writer",
     description |-> <<"Using the research insights provided, write a comprehensive answer to the user's question: ",
                       "{query}", " [...] User's question: ", "{query}">>]

crewWriterFirst == [tasks |-> <<writer_task, researcher_task>>]

crew == [tasks |-> <<researcher_task, writer_task>>]

\* Interpolation of the kickoff inputs into a task description
RECURSIVE Format(_, _)
Format(description, inputs) ==
    IF description = <<>> THEN ""
    ELSE (IF Head(description) = "{query}" THEN inputs.query ELSE Head(description))
         \o Format(Tail(description), inputs)

\* The context a task receives: the raw outputs of the tasks run before it
RECURSIVE Context(_)
Context(calls) ==
    IF calls = <<>> THEN ""
    ELSE IF Len(calls) = 1 THEN calls[1].output
    ELSE Context(SubSeq(calls, 1, Len(calls) - 1)) \o "\n----------\n" \o calls[Len(calls)].output

\* The exceptions a kickoff may raise: cls and the args it was built with
PipelineExceptions ==
    { [cls |-> "APIConnectionError", args |-> <<"ollama: connection refused">>],
      [cls |-> "AssertionError",     args |-> <<>>],
      [cls |-> "ValueError",         args |-> <<"bad output", "retry">>] }

\* str(e) of a Python exception: "" without args, the one arg, else the tuple
StrExc(e) ==
    IF Len(e.args) = 0 THEN ""
    ELSE IF Len(e.args) = 1 THEN e.args[1]
    ELSE "('" \o e.args[1] \o "', '" \o e.args[2] \o "')"

\* str(result) of the CrewOutput a kickoff returns: its raw text
StrResult(result) == result.raw

\* ---------------------------------------------------------------- backend: the endpoints
predict_returnFlat(result) ==
    [status |-> 200, body |-> [raw |-> StrResult(result)]]

\* predict, the try branch
predict_return(result) ==
    [status |-> 200, body |-> [output |-> [raw |-> StrResult(result)]]]

\* predict, the except branch
predict_except(e) ==
    [status |-> 500, body |-> [error |-> StrExc(e)]]

VARIABLES
    backend,   \* "up", or "down": the process is gone, connecting is refused or unanswered
    llmUp,     \* whether the model backend (Ollama) answers
    inbox,     \* requests accepted on the backend's socket, not yet dispatched
    running,   \* the request handlers started and not yet returned
    outbox,    \* responses written by the backend, not yet read by a client
    broken,    \* ids of the requests whose connection a backend stop has reset
    cache,     \* the st.cache_data memo of check_server_health
    sess       \* the browser session's script run: where it waits and what it shows

vars == <<backend, llmUp, inbox, running, outbox, broken, cache, sess>>

\* The ids of the requests in flight, and the id the next request gets (0: none left)
InFlight == {r.id : r \in inbox} \cup {t.id : t \in running} \cup {r.id : r \in outbox}
               \cup broken \cup {sess.await}
NextId ==
    IF Ids \ InFlight = {} THEN 0
    ELSE CHOOSE i \in Ids \ InFlight : \A j \in Ids \ InFlight : i <= j

healthProbingModel == 
    IF llmUp THEN [status |-> 200, body |-> [status |-> "healthy"]]
    ELSE [status |-> 503, body |-> [status |-> "unhealthy"]]

\* health
health == [status |-> 200, body |-> [status |-> "healthy"]]

\* ---------------------------------------------------------------- front end: helpers
\* requests.exceptions: each class with the classes it derives from
Ancestors(cls) ==
    CASE cls = "ConnectTimeout"  -> {"ConnectTimeout", "ConnectionError", "Timeout", "RequestException", "Exception"}
      [] cls = "ReadTimeout"     -> {"ReadTimeout", "Timeout", "RequestException", "Exception"}
      [] cls = "ConnectionError" -> {"ConnectionError", "RequestException", "Exception"}
      [] cls = "HTTPError"       -> {"HTTPError", "RequestException", "Exception"}
      [] OTHER                   -> {cls, "Exception"}

ExceptClausesConnectionFirst ==
    << [catch |-> "ConnectionError",  shows |-> "connection"],
       [catch |-> "Timeout",          shows |-> "timeout"],
       [catch |-> "RequestException", shows |-> "request"],
       [catch |-> "Exception",        shows |-> "unexpected"] >>

\* The except clauses around requests.post, in source order
ExceptClauses ==
    << [catch |-> "Timeout",          shows |-> "timeout"],
       [catch |-> "ConnectionError",  shows |-> "connection"],
       [catch |-> "RequestException", shows |-> "request"],
       [catch |-> "Exception",        shows |-> "unexpected"] >>

\* The message shown for an exception: that of the first clause that matches
Handle(cls) ==
    LET hits == {i \in DOMAIN ExceptClauses : ExceptClauses[i].catch \in Ancestors(cls)}
        first == CHOOSE i \in hits : \A j \in hits : i <= j
    IN  ExceptClauses[first].shows

ShouldPostUnstripped(pressed, q) == pressed /\ Truthy(q)

\* `if submit_button and query:` then `if not query.strip(): ... else:` 
ShouldPost(pressed, q) == pressed /\ Truthy(q) /\ Truthy(strip(q))

InitSession ==
    [pc |-> "idle", await |-> 0, pressed |-> FALSE, query |-> "",
     badge |-> "none", shown |-> "none", answer |-> "", exc |-> "none", sent |-> 0]

Request(id, kind, from, q) == [id |-> id, kind |-> kind, from |-> from, query |-> q]

Response(req, r) ==
    [id |-> req.id, kind |-> req.kind, to |-> req.from, status |-> r.status, body |-> r.body]

\* The script run ends: nothing is awaited any more
Ended(base) == [base EXCEPT !.pc = "idle", !.await = 0]

OnPostExceptionRetry(base, cls) ==
    IF backend = "up" /\ NextId # 0
    THEN /\ sess' = [base EXCEPT !.pc = "post", !.await = NextId, !.sent = @ + 1]
         /\ inbox' = inbox \cup {Request(NextId, "predict", "page", base.query)}
    ELSE /\ sess' = [Ended(base) EXCEPT !.shown = Handle(cls), !.exc = cls]
         /\ UNCHANGED inbox

\* The except clauses: show the error and end the run
OnPostException(base, cls) ==
    /\ sess' = [Ended(base) EXCEPT !.shown = Handle(cls), !.exc = cls]
    /\ UNCHANGED inbox

\* What requests raises when no connection is made: refused, or no answer in time
ConnectFailures == {"ConnectionError", "ConnectTimeout"}

\* requests.post(f"{SERVER_URL}/predict", json={"query": query}, timeout=300)
Post(base) ==
    LET b == [base EXCEPT !.sent = @ + 1] IN
    CASE backend = "down" -> \E cls \in ConnectFailures : OnPostException(b, cls)
      [] backend = "up" ->
            /\ NextId # 0
            /\ sess' = [b EXCEPT !.pc = "post", !.await = NextId]
            /\ inbox' = inbox \cup {Request(NextId, "predict", "page", b.query)}

\* The script from `is_online = ...` on
Script(base, is_online) ==
    IF ~is_online
    THEN /\ sess' = [Ended(base) EXCEPT !.badge = "offline", !.shown = "offline"]
         /\ UNCHANGED inbox
    ELSE LET b == [base EXCEPT !.badge = "online"] IN
         IF ShouldPost(b.pressed, b.query)
         THEN Post(b)
         ELSE /\ sess' = [Ended(b) EXCEPT !.shown =
                            IF b.pressed /\ Truthy(b.query) THEN "warning" ELSE "form"]
              /\ UNCHANGED inbox

\* ---------------------------------------------------------------- initial state
Init ==
    /\ backend = "up"
    /\ llmUp = TRUE
    /\ inbox = {}
    /\ running = {}
    /\ outbox = {}
    /\ broken = {}
    /\ cache = [valid |-> FALSE, value |-> FALSE]
    /\ sess = InitSession

\* ---------------------------------------------------------------- front end: actions
\* A user interaction reruns the script from the top, with the
\* button pressed or not and q in the text area
Rerun(pressed, q) ==
    /\ sess.pc = "idle"
    /\ LET base == [InitSession EXCEPT !.pressed = pressed, !.query = q] IN
       IF cache.valid
       THEN /\ Script(base, cache.value)
            /\ UNCHANGED cache
       ELSE CASE backend = "down" ->
                   /\ cache' = [valid |-> TRUE, value |-> FALSE]
                   /\ Script(base, FALSE)
              [] backend = "up" ->
                   /\ NextId # 0
                   /\ sess' = [base EXCEPT !.pc = "health", !.await = NextId]
                   /\ inbox' = inbox \cup {Request(NextId, "health", "page", "")}
                   /\ UNCHANGED cache
    /\ UNCHANGED <<backend, llmUp, running, outbox, broken>>

\* check_server_health: the GET returned; `return response.status_code == 200`
HealthReply ==
    /\ sess.pc = "health"
    /\ \E r \in outbox :
          /\ r.id = sess.await
          /\ outbox' = outbox \ {r}
          /\ cache' = [valid |-> TRUE, value |-> (r.status = 200)]
          /\ Script(sess, r.status = 200)
    /\ UNCHANGED <<backend, llmUp, running, broken>>

\* check_server_health: the GET raised (timeout=2 or a reset); `except: return False`
HealthExcept ==
    /\ sess.pc = "health"
    /\ broken' = broken \ {sess.await}
    /\ cache' = [valid |-> TRUE, value |-> FALSE]
    /\ Script(sess, FALSE)
    /\ outbox' = {r \in outbox : r.id # sess.await}
    /\ UNCHANGED <<backend, llmUp, running>>

\* st.cache_data(ttl=10): the memoized value expires
CacheExpire ==
    /\ cache.valid
    /\ cache' = [valid |-> FALSE, value |-> FALSE]
    /\ UNCHANGED <<backend, llmUp, inbox, running, outbox, broken, sess>>

\* requests.post returned: raise_for_status, then render the answer
PostReply ==
    /\ sess.pc = "post"
    /\ \E r \in outbox :
          /\ r.id = sess.await
          /\ outbox' = outbox \ {r}
          /\ IF r.status >= 400
             THEN OnPostException(sess, "HTTPError")
             ELSE LET result == r.body
                      answer == Get(Get(result, "output", <<>>), "raw", "No response received")
                  IN  /\ sess' = [Ended(sess) EXCEPT !.shown = "answer",
                                                                     !.answer = answer]
                      /\ UNCHANGED inbox
    /\ UNCHANGED <<backend, llmUp, running, broken, cache>>

RunningCancelledOnDisconnect(id) == {t \in running : t.id # id}

\* What the backend does when a client closes its connection: predict never
\* awaits and never looks at the connection, so nothing
RunningAfterDisconnect(id) == running

\* requests.post raised a timeout (timeout=300) while it waited for the response
PostTimeout ==
    /\ sess.pc = "post"
    /\ OnPostException(sess, "ReadTimeout")
    /\ running' = RunningAfterDisconnect(sess.await)
    /\ broken' = broken \ {sess.await}
    /\ outbox' = {r \in outbox : r.id # sess.await}
    /\ UNCHANGED <<backend, llmUp, cache>>

\* requests.post raised ConnectionError: the backend went away
PostReset ==
    /\ sess.pc = "post"
    /\ sess.await \in broken
    /\ broken' = broken \ {sess.await}
    /\ OnPostException(sess, "ConnectionError")
    /\ UNCHANGED <<backend, llmUp, running, outbox, cache>>

\* Another client reads the response to its request
OtherReply(r) ==
    /\ r \in outbox
    /\ r.to = "other"
    /\ outbox' = outbox \ {r}
    /\ UNCHANGED <<backend, llmUp, inbox, running, broken, cache, sess>>

\* ---------------------------------------------------------------- backend: actions
LoopFreeThreaded == TRUE

\* uvicorn.run(app) serves on one event loop, and `async def predict` calls the
\* blocking crew.kickoff on it: no handler starts while one is running
LoopFree == running = {}

NoResult == [raw |-> ""]
NoExc    == [cls |-> "none", args |-> <<>>]

\* A response is written to its connection; one the client has closed takes nothing
Open(id, from) == from = "other" \/ sess.await = id
Write(box, r) == IF Open(r.id, r.to) THEN box \cup {r} ELSE box

\* GET /health is dispatched
ServeHealth(req) ==
    /\ backend = "up"
    /\ req \in inbox
    /\ req.kind = "health"
    /\ LoopFree
    /\ inbox' = inbox \ {req}
    /\ outbox' = Write(outbox, Response(req, health))
    /\ UNCHANGED <<backend, llmUp, running, broken, cache, sess>>

\* POST /predict is dispatched: predict enters crew.kickoff(inputs={"query": ...})
StartPredict(req) ==
    /\ backend = "up"
    /\ req \in inbox
    /\ req.kind = "predict"
    /\ LoopFree
    /\ inbox' = inbox \ {req}
    /\ running' = running \cup {[id |-> req.id, req |-> req, pc |-> "kickoff", kickoffs |-> 1, calls |-> <<>>,
                                 result |-> NoResult, exc |-> NoExc]}
    /\ UNCHANGED <<backend, llmUp, outbox, broken, cache, sess>>

\* The crew runs its next task: the task's agent answers `text`; after the last
\* task kickoff returns the last output as the CrewOutput
RunTask(t, text) ==
    /\ backend = "up"
    /\ t \in running
    /\ t.pc = "kickoff"
    /\ llmUp
    /\ LET i    == Len(t.calls) + 1
           task == crew.tasks[i]
           call == [agent   |-> task.agent,
                    prompt  |-> Format(task.description, [query |-> t.req.query]),
                    context |-> Context(t.calls),
                    output  |-> text]
           last == i = Len(crew.tasks)
       IN  running' = (running \ {t}) \cup
              {[t EXCEPT !.calls = Append(@, call),
                         !.pc = IF last THEN "returned" ELSE "kickoff",
                         !.result = IF last THEN [raw |-> text] ELSE @]}
    /\ UNCHANGED <<backend, llmUp, inbox, outbox, broken, cache, sess>>

\* The task being run raises: kickoff propagates the exception
TaskRaises(t, e) ==
    /\ backend = "up"
    /\ t \in running
    /\ t.pc = "kickoff"
    /\ running' = (running \ {t}) \cup {[t EXCEPT !.pc = "raised", !.exc = e, !.calls = <<>>]}
    /\ UNCHANGED <<backend, llmUp, inbox, outbox, broken, cache, sess>>

\* predict returns its JSONResponse
Respond(t) ==
    /\ backend = "up"
    /\ t \in running
    /\ t.pc \in {"returned", "raised"}
    /\ running' = running \ {t}
    /\ outbox' = Write(outbox, Response(t.req, IF t.pc = "returned" THEN predict_return(t.result)
                                                 ELSE predict_except(t.exc)))
    /\ UNCHANGED <<backend, llmUp, inbox, broken, cache, sess>>

\* ---------------------------------------------------------------- environment
\* The backend process stops: what it held is lost, its connections are reset
BackendStop ==
    /\ backend = "up"
    /\ backend' = "down"
    /\ broken' = broken \cup ({sess.await} \cap
                    ({r.id : r \in inbox} \cup {t.id : t \in running}))
    /\ inbox' = {}
    /\ running' = {}
    /\ UNCHANGED <<llmUp, outbox, cache, sess>>

BackendStart ==
    /\ backend = "down"
    /\ backend' = "up"
    /\ UNCHANGED <<llmUp, inbox, running, outbox, broken, cache, sess>>

\* Another client of the backend (a second browser session, curl) posts a query
OtherRequest(q) ==
    /\ backend = "up"
    /\ \A r \in inbox : r.from # "other"
    /\ \A r \in outbox : r.to # "other"
    /\ \A t \in running : t.req.from # "other"
    /\ NextId # 0
    /\ inbox' = inbox \cup {Request(NextId, "predict", "other", q)}
    /\ UNCHANGED <<backend, llmUp, running, outbox, broken, cache, sess>>

\* The model backend goes away or comes back
LlmToggle ==
    /\ llmUp' = ~llmUp
    /\ UNCHANGED <<backend, inbox, running, outbox, broken, cache, sess>>

\* ---------------------------------------------------------------- specifications
Server ==
    \/ \E req \in inbox : ServeHealth(req)
    \/ \E req \in inbox : StartPredict(req)
    \/ \E t \in running, text \in Texts : RunTask(t, text)
    \/ \E t \in running, e \in PipelineExceptions : TaskRaises(t, e)
    \/ \E t \in running : Respond(t)

Environment ==
    \/ BackendStop
    \/ BackendStart
    \/ LlmToggle
    \/ \E q \in OtherQueries : OtherRequest(q)
    \/ CacheExpire
    \/ \E r \in outbox : OtherReply(r)

Client ==
    \/ HealthReply
    \/ HealthExcept
    \/ PostReply
    \/ PostTimeout
    \/ PostReset

Next ==
    \/ \E pressed \in BOOLEAN, q \in ShortQueries : Rerun(pressed, q)
    \/ Client
    \/ Server
    \/ Environment

Spec == Init /\ [][Next]_vars

\* The page alone with a backend that stays up, and every query up to
\* MaxQueryLen typed
NextQuery ==
    \/ \E pressed \in BOOLEAN, q \in AllQueries : Rerun(pressed, q)
    \/ HealthReply
    \/ PostReply
    \/ Server
    \/ CacheExpire

SpecQuery == Init /\ [][NextQuery]_vars

\* ---------------------------------------------------------------- properties
\* The handler t returns in this step, to a connection its client holds open
Returns(t) ==
    /\ t \in running
    /\ t \notin running'
    /\ backend' = backend
    /\ Open(t.id, t.req.from)

\* C1 (as claimed): whenever crew.kickoff raised, POST /predict answers 500 with a
\* body that has an `error` key holding a non-empty string
C1_ErrorTextNonEmpty ==
    [][\A t \in running :
          (t.pc = "raised" /\ Returns(t)) =>
             \E r \in outbox' :
                /\ r.id = t.id
                /\ r.status = 500
                /\ "error" \in DOMAIN r.body
                /\ r.body.error \in STRING
                /\ r.body.error # ""]_vars

\* C2: every dispatch of GET /health answers 200 {"status": "healthy"}, whatever
\* the state of the model backend, and changes nothing else in the backend
C2_HealthAlwaysHealthy ==
    [][\A req \in inbox :
          (req.kind = "health" /\ req \notin inbox' /\ backend' = backend) =>
             /\ Open(req.id, req.from) =>
                   outbox' = outbox \cup {Response(req, [status |-> 200,
                                                         body |-> [status |-> "healthy"]])}
             /\ ~Open(req.id, req.from) => outbox' = outbox
             /\ inbox' = inbox \ {req}
             /\ UNCHANGED <<llmUp, running, broken, cache, sess>>]_vars

C2_Witness ==
    \E r \in outbox : r.kind = "health" /\ ~llmUp

\* C3 (as claimed): a script run that renders while the backend is offline shows
\* the offline indicator and issues no POST /predict
C3_OfflineBlocksSubmission ==
    [][(backend = "down" /\ sess.pc \in {"idle", "health"} /\ sess' # sess /\ sess'.pc # "health") =>
          (sess'.badge = "offline" /\ sess'.shown = "offline" /\ sess'.sent = 0)]_vars

\* C4: when the page gives up on its POST with a timeout, the backend keeps the
\* request and the handler as they are, and a handler started leaves only by
\* returning its response after kickoff completed or failed (or with the process)
C4_NoCancellation ==
    [][/\ (sess.pc = "post" /\ sess'.pc = "idle" /\ sess'.shown = "timeout") =>
             (running' = running /\ inbox' = inbox)
       /\ \A t \in running :
             \/ backend' = "down"
             \/ \E u \in running' : u.id = t.id /\ u.req = t.req
             \/ t.pc \in {"returned", "raised"}]_vars

C4_Witness ==
    /\ sess.pc = "idle"
    /\ sess.shown = "timeout"
    /\ sess.exc = "ReadTimeout"
    /\ \E t \in running : t.req.from = "page" /\ t.pc = "returned"

\* C5: a press of the button with an empty or whitespace-only query sends no
\* POST /predict
C5_BlankQueryNeverPosted ==
    /\ (sess.pressed /\ ~Truthy(strip(sess.query))) =>
          (sess.sent = 0 /\ sess.pc # "post")
    /\ \A r \in inbox : (r.from = "page" /\ r.kind = "predict") => Truthy(strip(r.query))
    /\ \A t \in running : t.req.from = "page" => Truthy(strip(t.req.query))

C5_Witness ==
    /\ sess.pressed
    /\ Len(sess.query) >= 2
    /\ ~Truthy(strip(sess.query))
    /\ sess.badge = "online"
    /\ sess.shown = "warning"

\* The envelope {"output": {"raw": <string>}}
Envelope(body) ==
    /\ DOMAIN body = {"output"}
    /\ DOMAIN body.output = {"raw"}
    /\ body.output.raw \in STRING

\* C6: a POST /predict whose kickoff returned answers 200 with the envelope
\* {"output": {"raw": <string>}}, and so does every other one: any two such
\* answers have the same shape
C6_SuccessEnvelope ==
    [][/\ \A t \in running :
             (t.pc = "returned" /\ Returns(t)) =>
                \E r \in outbox' : r.id = t.id /\ r.status = 200 /\ Envelope(r.body)
       /\ \A r \in outbox' :
             (r.kind = "predict" /\ r.status = 200) => Envelope(r.body)]_vars

C6_Witness ==
    \E r1, r2 \in outbox :
       /\ r1.to = "page" /\ r2.to = "other"
       /\ r1.kind = "predict" /\ r2.kind = "predict"
       /\ r1.status = 200 /\ r2.status = 200
       /\ r1.body.output.raw # r2.body.output.raw

\* C7: a timeout raised by requests.post (read or connect) is shown as the
\* timeout message, never as the connection message, with no answer
C7_TimeoutShownAsTimeout ==
    "Timeout" \in Ancestors(sess.exc) =>
       (sess.shown = "timeout" /\ sess.answer = "" /\ sess.pc = "idle")

C7_Witness ==
    /\ sess.exc = "ConnectTimeout"
    /\ "ConnectionError" \in Ancestors(sess.exc)
    /\ sess.shown = "timeout"

\* C8: in every kickoff the Researcher runs first on the query alone, the Writer
\* second on the query with the Researcher's output as context, and the result
\* is the Writer's output
C8_ResearcherThenWriter ==
    \A t \in running :
       LET n == Len(t.calls) IN
       /\ n <= 2
       /\ n >= 1 =>
             /\ t.calls[1].agent = "Research Specialist"
             /\ t.calls[1].context = ""
             /\ t.calls[1].prompt = "Carefully analyze the user's question: " \o t.req.query
                                       \o " [...] User's question: " \o t.req.query
       /\ n = 2 =>
             /\ t.calls[2].agent = "Technical Writer"
             /\ t.calls[2].context = t.calls[1].output
             /\ t.calls[2].prompt =
                   "Using the research insights provided, write a comprehensive answer to the user's question: "
                      \o t.req.query \o " [...] User's question: " \o t.req.query
       /\ t.pc = "returned" => (n = 2 /\ t.result.raw = t.calls[2].output)

C8_Witness ==
    \E t \in running :
       /\ t.pc = "returned"
       /\ Len(t.req.query) >= 2
       /\ t.calls[1].output # t.calls[2].output
       /\ t.result.raw = t.calls[2].output

\* C9: one submission sends at most one POST /predict, an error shown ends the
\* run with nothing awaited, and a handler calls kickoff once
C9_NoRetry ==
    /\ sess.sent <= 1
    /\ sess.shown \in {"timeout", "connection", "request", "unexpected"} =>
          (sess.pc = "idle" /\ sess.await = 0 /\ sess.sent = 1)
    /\ \A t \in running : t.kickoffs = 1

C9_Witness ==
    /\ sess.shown = "request"
    /\ sess.exc = "HTTPError"
    /\ sess.sent = 1
    /\ sess.pc = "idle"

\* C10: at most one handler is in progress, and while one is no other request is
\* dispatched or answered
C10_OneInvocationAtATime ==
    [][/\ Cardinality(running') <= 1
       /\ (running # {} /\ backend' = backend) =>
             /\ inbox \subseteq inbox'
             /\ \A r \in outbox' \ outbox : \E t \in running : t.id = r.id]_vars

C10_Witness ==
    \E t \in running, r1, r2 \in inbox :
       /\ t.pc = "kickoff"
       /\ r1.kind = "health"
       /\ r2.kind = "predict"

====
